---- MODULE Spec2Model ----
(***************************************************************************)
(* A model of the JSON viewer: the background conversion worker            *)
(* (utils/jsonWorker: self.onmessage, jsonToCsv, csvToJson) and the part   *)
(* of the editor shell (App.tsx) that dispatches requests to it and        *)
(* handles its replies.  The shell's display-only state (statusMsg, theme, *)
(* viewMode), which no handler reads, is left out.  The handlers that only *)
(* put a computed text into the editor while no large file is shown        *)
(* (format, unescape, JS-to-JSON, AI fix) act on the state as the          *)
(* textarea's onChange does with that text, and are not modelled apart;    *)
(* nor is the message handleJsToJSON sets when its input does not evaluate.*)
(*                                                                         *)
(* Text is a sequence of one-character strings.  A JSON value is a tagged  *)
(* record: [t |-> "null"], [t |-> "bool", v |-> b], [t |-> "num", v |-> n],*)
(* [t |-> "str", v |-> text], [t |-> "arr", v |-> <<values>>] and          *)
(* [t |-> "obj", v |-> <<key/value pairs in own-key order>>].              *)
(***************************************************************************)
EXTENDS Integers, Sequences, FiniteSets, TLC

(***************************************************************************)
(* Bounds of the model                                                     *)
(***************************************************************************)
\* longest text drawn as a string value of a row
MaxStrLen == 2
\* longest CSV text drawn as direct input of csvToJson
MaxCsvLen == 4
\* most requests dispatched and not yet answered and handled
MaxOutstanding == 2
\* most file reads in progress at once
MaxReading == 1

(***************************************************************************)
(* Characters and JavaScript string primitives                             *)
(***************************************************************************)
QUOTE == "\""
COMMA == ","
LF == "\n"
CR == "\r"
SP == " "

\* the characters String.prototype.trim and Number() treat as white space
\* (those of them that the model's alphabets hold)
WhiteSpace == {SP, LF, CR, "\t"}

DigitChars == <<"0", "1", "2", "3", "4", "5", "6", "7", "8", "9">>
Digits == {DigitChars[i] : i \in 1..10}
DigitVal(c) == (CHOOSE i \in 1..10 : DigitChars[i] = c) - 1

UpperChars == <<"A", "B", "C", "D", "E", "F", "G", "H", "I", "J", "K", "L", "M",
                "N", "O", "P", "Q", "R", "S", "T", "U", "V", "W", "X", "Y", "Z">>
LowerChars == <<"a", "b", "c", "d", "e", "f", "g", "h", "i", "j", "k", "l", "m",
                "n", "o", "p", "q", "r", "s", "t", "u", "v", "w", "x", "y", "z">>

\* String.prototype.toLowerCase
toLowerCase(s) ==
  [i \in 1..Len(s) |->
     IF \E j \in 1..26 : UpperChars[j] = s[i]
     THEN LowerChars[CHOOSE j \in 1..26 : UpperChars[j] = s[i]]
     ELSE s[i]]

RECURSIVE TrimLeft(_)
TrimLeft(s) ==
  IF s # <<>> /\ Head(s) \in WhiteSpace THEN TrimLeft(Tail(s)) ELSE s

RECURSIVE TrimRight(_)
TrimRight(s) ==
  IF s # <<>> /\ s[Len(s)] \in WhiteSpace
  THEN TrimRight(SubSeq(s, 1, Len(s) - 1))
  ELSE s

\* String.prototype.trim
trim(s) == TrimRight(TrimLeft(s))

\* the pieces of s between the one-character separators at the positions P
RECURSIVE SplitOn(_, _, _, _)
SplitOn(s, P, i, cur) ==
  IF i > Len(s) THEN <<cur>>
  ELSE IF i \in P THEN <<cur>> \o SplitOn(s, P, i + 1, <<>>)
  ELSE SplitOn(s, P, i + 1, Append(cur, s[i]))

\* Array.prototype.join
RECURSIVE join(_, _)
join(parts, sep) ==
  IF parts = <<>> THEN <<>>
  ELSE IF Len(parts) = 1 THEN parts[1]
  ELSE parts[1] \o sep \o join(Tail(parts), sep)

\* s.split(/\r?\n/): a line ends at LF, and a CR right before that LF belongs
\* to the separator
splitLines(s) ==
  LET raw == SplitOn(s, {i \in 1..Len(s) : s[i] = LF}, 1, <<>>)
  IN  [k \in 1..Len(raw) |->
         IF k < Len(raw) /\ raw[k] # <<>> /\ raw[k][Len(raw[k])] = CR
         THEN SubSeq(raw[k], 1, Len(raw[k]) - 1)
         ELSE raw[k]]

\* s.split(',')
splitComma(s) == SplitOn(s, {i \in 1..Len(s) : s[i] = COMMA}, 1, <<>>)

QuotesAfter(s, i) == Cardinality({j \in (i + 1)..Len(s) : s[j] = QUOTE})

\* a splitter that takes every comma for a field boundary
splitRegex_everyComma(s) == splitComma(s)

\* s.split(splitRegex), splitRegex = /,(?=(?:(?:[^"]*"){2})*[^"]*$)/ : a comma
\* separates fields when an even number of quotes follows it up to the end
splitRegex(s) ==
  SplitOn(s, {i \in 1..Len(s) : s[i] = COMMA /\ QuotesAfter(s, i) % 2 = 0}, 1, <<>>)

\* h.replace(/^"|"$/g, ''): one quote off the front, then one off the end of
\* what is left
stripHeaderQuotes(h) ==
  LET a == IF h # <<>> /\ Head(h) = QUOTE THEN Tail(h) ELSE h
  IN  IF a # <<>> /\ a[Len(a)] = QUOTE THEN SubSeq(a, 1, Len(a) - 1) ELSE a

\* stringVal.replace(/"/g, '""')
RECURSIVE escapeQuotes(_)
escapeQuotes(s) ==
  IF s = <<>> THEN <<>>
  ELSE IF Head(s) = QUOTE THEN <<QUOTE, QUOTE>> \o escapeQuotes(Tail(s))
  ELSE <<Head(s)>> \o escapeQuotes(Tail(s))

\* val.replace(/""/g, '"'): pairs of quotes, left to right, not overlapping
RECURSIVE unescapeQuotes(_)
unescapeQuotes(s) ==
  IF Len(s) < 2 THEN s
  ELSE IF s[1] = QUOTE /\ s[2] = QUOTE
       THEN <<QUOTE>> \o unescapeQuotes(SubSeq(s, 3, Len(s)))
       ELSE <<s[1]>> \o unescapeQuotes(Tail(s))

\* the decimal digits of a natural number (String(n))
RECURSIVE NumToStr(_)
NumToStr(n) ==
  IF n < 10 THEN <<DigitChars[n + 1]>>
  ELSE NumToStr(n \div 10) \o <<DigitChars[(n % 10) + 1]>>

RECURSIVE DigitsValue(_, _)
DigitsValue(s, acc) ==
  IF s = <<>> THEN acc ELSE DigitsValue(Tail(s), 10 * acc + DigitVal(Head(s)))

\* Number(s) of a string: white space is stripped, the empty text is 0, a run
\* of decimal digits is its value, anything else is NaN.  (The alphabets of
\* the model hold no sign, point, exponent or radix-prefix character.)
Number(s) ==
  LET t == trim(s)
  IN  IF \A i \in 1..Len(t) : t[i] \in Digits
      THEN [nan |-> FALSE, v |-> DigitsValue(t, 0)]
      ELSE [nan |-> TRUE, v |-> 0]

(***************************************************************************)
(* JSON values                                                             *)
(***************************************************************************)
JNull == [t |-> "null"]
JUndefined == [t |-> "undefined"]
JBool(b) == [t |-> "bool", v |-> b]
JNum(n) == [t |-> "num", v |-> n]
JStr(s) == [t |-> "str", v |-> s]
JArr(a) == [t |-> "arr", v |-> a]
JObj(p) == [t |-> "obj", v |-> p]

\* typeof x === 'object' && x !== null
isObject(x) == x.t \in {"arr", "obj"}

\* a canonical array index: "0", or digits that do not start with "0"
isIndexKey(k) ==
  /\ k # <<>>
  /\ \A i \in 1..Len(k) : k[i] \in Digits
  /\ (Len(k) > 1 => k[1] # "0")

\* obj[k] = val on an ordinary object: an own key keeps its place, a new index
\* key goes among the index keys in ascending order, any other new key last
setProp(pairs, k, val) ==
  IF \E i \in 1..Len(pairs) : pairs[i][1] = k
  THEN [i \in 1..Len(pairs) |-> IF pairs[i][1] = k THEN <<k, val>> ELSE pairs[i]]
  ELSE IF isIndexKey(k)
  THEN LET before == Cardinality({i \in 1..Len(pairs) :
                        /\ isIndexKey(pairs[i][1])
                        /\ DigitsValue(pairs[i][1], 0) < DigitsValue(k, 0)})
       IN  SubSeq(pairs, 1, before) \o << <<k, val>> >>
             \o SubSeq(pairs, before + 1, Len(pairs))
  ELSE Append(pairs, <<k, val>>)

\* Object.keys(item) of an object or an array
ObjectKeys(item) ==
  IF item.t = "obj" THEN [i \in 1..Len(item.v) |-> item.v[i][1]]
  ELSE [i \in 1..Len(item.v) |-> NumToStr(i - 1)]

\* item[header]: the own property, or undefined.  (The keys of the model are
\* none of the names Object.prototype or Array.prototype define.)
getProp(item, header) ==
  IF item.t = "obj"
  THEN IF \E i \in 1..Len(item.v) : item.v[i][1] = header
       THEN item.v[CHOOSE i \in 1..Len(item.v) : item.v[i][1] = header][2]
       ELSE JUndefined
  ELSE IF isIndexKey(header) /\ DigitsValue(header, 0) < Len(item.v)
       THEN item.v[DigitsValue(header, 0) + 1]
       ELSE JUndefined

(***************************************************************************)
(* JSON.parse, for JSON texts of null, true, false, unsigned integers,     *)
(* strings without escapes, arrays and objects                             *)
(***************************************************************************)
RECURSIVE skipWs(_, _)
skipWs(s, i) ==
  IF i <= Len(s) /\ s[i] \in WhiteSpace THEN skipWs(s, i + 1) ELSE i

StartsAt(s, i, w) ==
  i + Len(w) - 1 <= Len(s) /\ SubSeq(s, i, i + Len(w) - 1) = w

\* the index after the digits that start at i
RECURSIVE scanDigits(_, _)
scanDigits(s, i) ==
  IF i <= Len(s) /\ s[i] \in Digits THEN scanDigits(s, i + 1) ELSE i

\* the index of the quote that closes the string whose text starts at i; 0
\* when the string is not closed or holds a line break
RECURSIVE scanString(_, _)
scanString(s, i) ==
  IF i > Len(s) \/ s[i] \in {LF, CR, "\t"} THEN 0
  ELSE IF s[i] = QUOTE THEN i
  ELSE scanString(s, i + 1)

ParseFail == [ok |-> FALSE, v |-> JUndefined, next |-> 0]
ParseOk(val, next) == [ok |-> TRUE, v |-> val, next |-> next]

RECURSIVE parseValue(_, _)
RECURSIVE parseElements(_, _, _)
RECURSIVE parseMembers(_, _, _)

parseValue(s, i0) ==
  LET i == skipWs(s, i0)
  IN  IF i > Len(s) THEN ParseFail
      ELSE IF StartsAt(s, i, <<"n", "u", "l", "l">>) THEN ParseOk(JNull, i + 4)
      ELSE IF StartsAt(s, i, <<"t", "r", "u", "e">>) THEN ParseOk(JBool(TRUE), i + 4)
      ELSE IF StartsAt(s, i, <<"f", "a", "l", "s", "e">>) THEN ParseOk(JBool(FALSE), i + 5)
      ELSE IF s[i] = "0" THEN ParseOk(JNum(0), i + 1)
      ELSE IF s[i] \in Digits
           THEN ParseOk(JNum(DigitsValue(SubSeq(s, i, scanDigits(s, i) - 1), 0)),
                        scanDigits(s, i))
      ELSE IF s[i] = QUOTE
           THEN LET j == scanString(s, i + 1)
                IN  IF j = 0 THEN ParseFail
                    ELSE ParseOk(JStr(SubSeq(s, i + 1, j - 1)), j + 1)
      ELSE IF s[i] = "["
           THEN LET k == skipWs(s, i + 1)
                IN  IF k <= Len(s) /\ s[k] = "]" THEN ParseOk(JArr(<<>>), k + 1)
                    ELSE parseElements(s, i + 1, <<>>)
      ELSE IF s[i] = "{"
           THEN LET k == skipWs(s, i + 1)
                IN  IF k <= Len(s) /\ s[k] = "}" THEN ParseOk(JObj(<<>>), k + 1)
                    ELSE parseMembers(s, i + 1, <<>>)
      ELSE ParseFail

parseElements(s, i, acc) ==
  LET r == parseValue(s, i)
  IN  IF ~r.ok THEN ParseFail
      ELSE LET k == skipWs(s, r.next)
           IN  IF k > Len(s) THEN ParseFail
               ELSE IF s[k] = COMMA THEN parseElements(s, k + 1, Append(acc, r.v))
               ELSE IF s[k] = "]" THEN ParseOk(JArr(Append(acc, r.v)), k + 1)
               ELSE ParseFail

parseMembers(s, i, acc) ==
  LET k0 == skipWs(s, i)
  IN  IF k0 > Len(s) \/ s[k0] # QUOTE THEN ParseFail
      ELSE LET j == scanString(s, k0 + 1)
           IN  IF j = 0 THEN ParseFail
               ELSE LET c == skipWs(s, j + 1)
                    IN  IF c > Len(s) \/ s[c] # ":" THEN ParseFail
                        ELSE LET r == parseValue(s, c + 1)
                             IN  IF ~r.ok THEN ParseFail
                                 ELSE LET k == skipWs(s, r.next)
                                          acc2 == setProp(acc, SubSeq(s, k0 + 1, j - 1), r.v)
                                      IN  IF k > Len(s) THEN ParseFail
                                          ELSE IF s[k] = COMMA THEN parseMembers(s, k + 1, acc2)
                                          ELSE IF s[k] = "}" THEN ParseOk(JObj(acc2), k + 1)
                                          ELSE ParseFail

\* the message of the SyntaxError JSON.parse throws (its wording is the
\* engine's; it is never empty)
SyntaxErrorMessage == "Unexpected token in JSON"

\* JSON.parse(text): the value, or the thrown error's message
JSONparse(text) ==
  LET r == parseValue(text, 1)
  IN  IF r.ok /\ skipWs(text, r.next) > Len(text)
      THEN [ok |-> TRUE, value |-> r.v, message |-> ""]
      ELSE [ok |-> FALSE, value |-> JUndefined, message |-> SyntaxErrorMessage]

\* a string's characters as JSON.stringify writes them between the quotes
RECURSIVE escapeJson(_)
escapeJson(s) ==
  IF s = <<>> THEN <<>>
  ELSE (CASE Head(s) = QUOTE -> <<"\\", QUOTE>>
          [] Head(s) = "\\" -> <<"\\", "\\">>
          [] Head(s) = LF -> <<"\\", "n">>
          [] Head(s) = CR -> <<"\\", "r">>
          [] Head(s) = "\t" -> <<"\\", "t">>
          [] OTHER -> <<Head(s)>>) \o escapeJson(Tail(s))

\* JSON.stringify(val) without indentation, of a value JSON.parse returned
RECURSIVE JSONstringify(_)
JSONstringify(val) ==
  CASE val.t = "str" -> <<QUOTE>> \o escapeJson(val.v) \o <<QUOTE>>
    [] val.t = "num" -> NumToStr(val.v)
    [] val.t = "bool" -> IF val.v THEN <<"t", "r", "u", "e">>
                                  ELSE <<"f", "a", "l", "s", "e">>
    [] val.t = "null" -> <<"n", "u", "l", "l">>
    [] val.t = "arr" ->
         <<"[">> \o join([i \in 1..Len(val.v) |-> JSONstringify(val.v[i])], <<COMMA>>)
           \o <<"]">>
    [] val.t = "obj" ->
         <<"{">>
           \o join([p \in 1..Len(val.v) |->
                      <<QUOTE>> \o escapeJson(val.v[p][1]) \o <<QUOTE, ":">>
                        \o JSONstringify(val.v[p][2])], <<COMMA>>)
           \o <<"}">>

ObjectObjectText ==
  <<"[", "o", "b", "j", "e", "c", "t", " ", "O", "b", "j", "e", "c", "t", "]">>

\* String(val)
RECURSIVE String(_)
String(val) ==
  CASE val.t = "str" -> val.v
    [] val.t = "num" -> NumToStr(val.v)
    [] val.t = "bool" -> IF val.v THEN <<"t", "r", "u", "e">>
                                  ELSE <<"f", "a", "l", "s", "e">>
    [] val.t = "null" -> <<"n", "u", "l", "l">>
    [] val.t = "undefined" -> <<"u", "n", "d", "e", "f", "i", "n", "e", "d">>
    [] val.t = "arr" ->
         join([i \in 1..Len(val.v) |->
                 IF val.v[i].t \in {"null", "undefined"} THEN <<>>
                 ELSE String(val.v[i])], <<COMMA>>)
    [] val.t = "obj" -> ObjectObjectText

(***************************************************************************)
(* The converter: jsonToCsv and csvToJson                                  *)
(***************************************************************************)
\* keys.add(k) for every own key of every object element, in scan order
RECURSIVE addKeys(_, _)
addKeys(keys, ks) ==
  IF ks = <<>> THEN keys
  ELSE addKeys(IF \E i \in 1..Len(keys) : keys[i] = Head(ks)
               THEN keys ELSE Append(keys, Head(ks)),
               Tail(ks))

RECURSIVE collectKeys(_, _)
collectKeys(items, keys) ==
  IF items = <<>> THEN keys
  ELSE collectKeys(Tail(items),
                   IF isObject(Head(items))
                   THEN addKeys(keys, ObjectKeys(Head(items)))
                   ELSE keys)

\* Array.from(keys)
csvHeaders(items) == collectKeys(items, <<>>)

\* one value of a row: '' for null and undefined, else String(val); quotes
\* doubled; wrapped in quotes
csvValue(item, header) ==
  LET val == getProp(item, header)
      stringVal == IF val.t \in {"null", "undefined"} THEN <<>> ELSE String(val)
  IN  <<QUOTE>> \o escapeQuotes(stringVal) \o <<QUOTE>>

RECURSIVE csvRows(_, _)
csvRows(items, headers) ==
  IF items = <<>> THEN <<>>
  ELSE IF ~isObject(Head(items)) THEN csvRows(Tail(items), headers)
  ELSE <<join([h \in 1..Len(headers) |-> csvValue(Head(items), headers[h])],
              <<COMMA>>)>>
         \o csvRows(Tail(items), headers)

jsonToCsv(items) ==
  IF items.t # "arr" \/ Len(items.v) = 0 THEN <<>>
  ELSE LET headers == csvHeaders(items.v)
       IN  join(<<join(headers, <<COMMA>>)>> \o csvRows(items.v, headers), <<LF>>)

\* the headers of the first line
parseHeaders(line) ==
  LET hs == splitComma(line)
  IN  [i \in 1..Len(hs) |-> stripHeaderQuotes(trim(hs[i]))]

\* a field reader that unwraps and leaves doubled quotes doubled
fieldText_keepEscapes(raw) ==
  LET val == trim(raw)
  IN  IF val # <<>> /\ val[1] = QUOTE /\ val[Len(val)] = QUOTE
      THEN SubSeq(val, 2, Len(val) - 1)
      ELSE val

\* one field: trimmed, unwrapped and unescaped when quoted at both ends
fieldText(raw) ==
  LET val == trim(raw)
  IN  IF val # <<>> /\ val[1] = QUOTE /\ val[Len(val)] = QUOTE
      THEN unescapeQuotes(SubSeq(val, 2, Len(val) - 1))
      ELSE val

\* the automatic conversion of a field's text
convertField(val) ==
  IF val = <<>> THEN JNull
  ELSE IF ~Number(val).nan /\ Len(val) > 0 THEN JNum(Number(val).v)
  ELSE IF toLowerCase(val) = <<"t", "r", "u", "e">> THEN JBool(TRUE)
  ELSE IF toLowerCase(val) = <<"f", "a", "l", "s", "e">> THEN JBool(FALSE)
  ELSE JStr(val)

\* a row filler that gives the headers without a field the value null
RECURSIVE fillRow_nullForMissing(_, _, _, _)
fillRow_nullForMissing(headers, values, index, obj) ==
  IF index > Len(headers) THEN obj
  ELSE fillRow_nullForMissing(headers, values, index + 1,
         setProp(obj, headers[index],
                 IF index <= Len(values) THEN convertField(fieldText(values[index]))
                 ELSE JNull))

\* headers.forEach((header, index) => ...) from index on
RECURSIVE fillRow(_, _, _, _)
fillRow(headers, values, index, obj) ==
  IF index > Len(headers) THEN obj
  ELSE fillRow(headers, values, index + 1,
               IF index <= Len(values)
               THEN setProp(obj, headers[index], convertField(fieldText(values[index])))
               ELSE obj)

\* the record of one data line
parseRow(headers, currentLine) ==
  JObj(fillRow(headers, splitRegex(currentLine), 1, <<>>))

\* a row loop that does not skip blank lines
RECURSIVE parseRows_keepBlank(_, _, _)
parseRows_keepBlank(headers, lines, i) ==
  IF i > Len(lines) THEN <<>>
  ELSE <<parseRow(headers, trim(lines[i]))>> \o parseRows_keepBlank(headers, lines, i + 1)

RECURSIVE parseRows(_, _, _)
parseRows(headers, lines, i) ==
  IF i > Len(lines) THEN <<>>
  ELSE LET currentLine == trim(lines[i])
       IN  IF currentLine = <<>> THEN parseRows(headers, lines, i + 1)
           ELSE <<parseRow(headers, currentLine)>> \o parseRows(headers, lines, i + 1)

csvToJson(csv) ==
  LET lines == splitLines(trim(csv))
  IN  IF Len(lines) < 2 THEN JArr(<<>>)
      ELSE JArr(parseRows(parseHeaders(lines[1]), lines, 2))

(***************************************************************************)
(* The worker's message handler                                            *)
(***************************************************************************)
\* the message of the TypeError csvToJson throws on data that is no string
TypeErrorMessage == "csv.trim is not a function"

\* the try block: the result of the switch, or the message of what it threw
\* (texts travel as string values)
runTask(type, data) ==
  CASE type = "PARSE" ->
         IF data.t = "str" THEN JSONparse(data.v)
         ELSE JSONparse(String(data))
    [] type = "JSON_TO_CSV" ->
         [ok |-> TRUE, value |-> JStr(jsonToCsv(data)), message |-> ""]
    [] type = "CSV_TO_JSON" ->
         IF data.t = "str"
         THEN [ok |-> TRUE, value |-> csvToJson(data.v), message |-> ""]
         ELSE [ok |-> FALSE, value |-> JUndefined, message |-> TypeErrorMessage]
    [] OTHER -> [ok |-> TRUE, value |-> JUndefined, message |-> ""]

\* a handler that posts nothing when the task throws
onmessage_silentOnError(e) ==
  LET r == runTask(e.type, e.data)
  IN  IF r.ok THEN <<[type |-> "SUCCESS", id |-> e.id, result |-> r.value]>>
      ELSE <<>>

\* a handler that reports a thrown task as a success without a result
onmessage_successOnError(e) ==
  LET r == runTask(e.type, e.data)
  IN  <<[type |-> "SUCCESS", id |-> e.id, result |-> r.value]>>

\* self.onmessage: the messages it posts for the request e
onmessage(e) ==
  LET r == runTask(e.type, e.data)
  IN  IF r.ok THEN <<[type |-> "SUCCESS", id |-> e.id, result |-> r.value]>>
      ELSE <<[type |-> "ERROR", id |-> e.id, error |-> r.message]>>

(***************************************************************************)
(* State                                                                   *)
(***************************************************************************)
VARIABLES
  \* the editor shell (App)
  input,        \* the editor text: [ph |-> "none", text |-> t], or a placeholder
  json,         \* the parsed value, null when there is none
  error,        \* the error message, or null
  isLargeFile,
  isProcessing,
  reading,      \* how many FileReaders have not called onload yet
  downloaded,   \* whether the reply handled last called downloadFile
  \* the message channels between the shell and the worker
  inbox,        \* requests posted to the worker, not yet delivered
  outbox,       \* replies posted by the worker, not yet delivered
  \* history, read by no action's guard or effect on the program's state
  pending,      \* for each request not yet handled: the request, and
                \* whether the editor was cleared or a file loaded since
  \* the converter applied to drawn inputs
  items,        \* the value handed to jsonToCsv (undefined: text was drawn)
  csv,          \* the CSV text: jsonToCsv's output, or the drawn text
  result,       \* the value csvToJson returned
  stage,        \* "rows" -> "csv" -> "json"; "off" in the shell's specification
  \* the tree view (JsonTree)
  rootData,     \* the data handed to the root JsonTree, null when none is shown
  nodes,        \* the state of every mounted JsonTree, by its path of keys
  click         \* history: the last two operations on the tree

cvars == <<items, csv, result, stage>>
avars == <<input, json, error, isLargeFile, isProcessing, reading, downloaded>>
mvars == <<inbox, outbox>>
hvars == <<pending>>
pvars == <<avars, mvars, hvars>>
tvars == <<rootData, nodes, click>>
vars == <<pvars, cvars, tvars>>

\* no tree is shown
NoClick == [op |-> "none", at |-> <<>>, shown |-> 0]
TreeOff ==
  /\ rootData = JNull
  /\ nodes = <<>>
  /\ click = [last |-> NoClick, prev |-> NoClick]

(***************************************************************************)
(* The editor shell                                                        *)
(***************************************************************************)
NoError == [t |-> "null"]
ErrorMsg(m) == [t |-> "msg", v |-> m]

EditorText(text) == [ph |-> "none", text |-> text]
CsvPlaceholder == [ph |-> "csv", text |-> <<"[", "C", "S", "V">>]
LargePlaceholder == [ph |-> "large", text |-> <<"[", "L", "A", "R", "G", "E">>]

\* the editor's initial text (the sample document, shortened)
DefaultInput == <<"{", QUOTE, "a", QUOTE, ":", "t", "r", "u", "e", "}">>

\* sample texts: a JSON array of one mapping, a JSON string literal, an
\* unclosed array, and a CSV text of a header and one row
ArrayText == <<"[", "{", QUOTE, "a", QUOTE, ":", "1", "}", "]">>
StringText == <<QUOTE, "a", QUOTE>>
BrokenText == <<"[", "1">>
CsvText == <<"a", LF, "1">>

\* the files the user may pick: a .csv file, files over 2 MB, smaller files
Files ==
  {[csv |-> TRUE, large |-> FALSE, content |-> CsvText]}
    \cup {[csv |-> FALSE, large |-> TRUE, content |-> c] :
            c \in {ArrayText, StringText, BrokenText}}
    \cup {[csv |-> FALSE, large |-> FALSE, content |-> ArrayText]}

\* the texts the user may type
TypedTexts == {ArrayText, BrokenText}

\* parseJson(raw) on the state st = <<json, error, isLargeFile>>.  (No text of
\* the model starts with '[LARGE FILE LOADED]', the text of its first guard.)
parseJson(raw, st) ==
  LET parsed == JSONparse(raw)
  IN  IF trim(raw) = <<>> THEN <<JNull, NoError, st[3]>>
      ELSE IF parsed.ok THEN <<parsed.value, NoError, FALSE>>
      ELSE <<st[1], ErrorMsg(parsed.message), st[3]>>

\* the effect on [input, parseJson, isLargeFile] after a render that set the
\* input to inp and the flag to large, starting from st
afterRender(inp, large, st) ==
  IF (inp # input \/ large # isLargeFile) /\ ~large
  THEN parseJson(inp.text, <<st[1], st[2], large>>)
  ELSE <<st[1], st[2], large>>

\* values Date.now() may return, in any order (the system clock may be set
\* back between two calls)
Timestamps == {0, 1}

\* runWorkerTask(type, data): the request it posts when Date.now() is id
workerRequest(type, data, id) == [type |-> type, data |-> data, id |-> id]

\* the requests in flight, all marked as older than a clear or a load
Outdated(p) == [i \in 1..Len(p) |-> [p[i] EXCEPT !.stale = TRUE]]

\* runWorkerTask's effect on the channels and the history (p: the requests
\* in flight)
Dispatch(type, data, p) ==
  /\ Len(pending) < MaxOutstanding
  /\ \E id \in Timestamps :
       /\ inbox' = Append(inbox, workerRequest(type, data, id))
       /\ pending' = Append(p, [req |-> workerRequest(type, data, id), stale |-> FALSE])

\* setInput(text) by the textarea's onChange (the textarea is read-only
\* while isLargeFile)
EditInput(text) ==
  /\ ~isLargeFile
  /\ text # input.text
  /\ \E st \in {afterRender(EditorText(text), FALSE, <<json, error, isLargeFile>>)} :
         /\ input' = EditorText(text)
         /\ json' = st[1]
         /\ error' = st[2]
         /\ isLargeFile' = st[3]
  /\ UNCHANGED <<isProcessing, reading, downloaded>>
  /\ UNCHANGED <<mvars, hvars, cvars, tvars>>

handleClear ==
  /\ \E st \in {afterRender(EditorText(<<>>), FALSE, <<JNull, NoError, FALSE>>)} :
         /\ input' = EditorText(<<>>)
         /\ json' = st[1]
         /\ error' = st[2]
         /\ isLargeFile' = st[3]
  /\ pending' = Outdated(pending)
  /\ UNCHANGED <<isProcessing, reading, downloaded>>
  /\ UNCHANGED <<mvars, cvars, tvars>>

\* if (json): null, 0, the empty string and false are falsy
truthy(val) ==
  ~(val.t = "null" \/ val = JNum(0) \/ val = JStr(<<>>) \/ val = JBool(FALSE))

\* handleMinify (no text of the model is long enough for the confirm dialog)
handleMinify ==
  /\ truthy(json)
  /\ \E str \in {JSONstringify(json)} :
     \E st \in {afterRender(EditorText(str), FALSE, <<json, error, isLargeFile>>)} :
       /\ input' = EditorText(str)
       /\ json' = st[1]
       /\ error' = st[2]
       /\ isLargeFile' = st[3]
  /\ UNCHANGED <<isProcessing, reading, downloaded>>
  /\ UNCHANGED <<mvars, hvars, cvars, tvars>>

\* handleFileChange: the read of the picked file starts
handleFileChange ==
  /\ reading < MaxReading
  /\ reading' = reading + 1
  /\ UNCHANGED <<input, json, error, isLargeFile, isProcessing, downloaded>>
  /\ UNCHANGED <<mvars, hvars, cvars, tvars>>

\* reader.onload of a read in progress; file is the file that was picked
ReaderOnload(file) ==
  /\ reading > 0
  /\ reading' = reading - 1
  /\ IF file.csv
      THEN /\ Dispatch("CSV_TO_JSON", JStr(file.content), Outdated(pending))
           /\ isProcessing' = TRUE
           /\ input' = CsvPlaceholder
           /\ isLargeFile' = TRUE
           /\ UNCHANGED <<json, error>>
      ELSE IF file.large
      THEN /\ Dispatch("PARSE", JStr(file.content), Outdated(pending))
           /\ isProcessing' = TRUE
           /\ input' = LargePlaceholder
           /\ isLargeFile' = TRUE
           /\ UNCHANGED <<json, error>>
      ELSE \E st \in {afterRender(EditorText(file.content), FALSE,
                                 <<json, error, isLargeFile>>)} :
               /\ input' = EditorText(file.content)
               /\ json' = st[1]
               /\ error' = st[2]
               /\ isLargeFile' = st[3]
               /\ pending' = Outdated(pending)
               /\ UNCHANGED <<isProcessing, inbox>>
  /\ UNCHANGED <<downloaded, outbox, cvars, tvars>>

\* handleExportCsv (an alert and nothing else unless json is an array)
handleExportCsv ==
  /\ json.t = "arr"
  /\ Dispatch("JSON_TO_CSV", json, pending)
  /\ isProcessing' = TRUE
  /\ UNCHANGED <<input, json, error, isLargeFile, reading, downloaded>>
  /\ UNCHANGED <<outbox, cvars, tvars>>

\* a worker that, once a task has thrown, answers the next request with the
\* same error instead of running it
WorkerOnMessage_stuckAfterError ==
  /\ inbox # <<>>
  /\ inbox' = Tail(inbox)
  /\ outbox' =
       IF outbox # <<>> /\ outbox[Len(outbox)].type = "ERROR"
       THEN Append(outbox, [outbox[Len(outbox)] EXCEPT !.id = Head(inbox).id])
       ELSE outbox \o onmessage(Head(inbox))
  /\ UNCHANGED <<avars, pending, cvars, tvars>>

\* the worker takes the next request and runs self.onmessage on it
WorkerOnMessage ==
  /\ inbox # <<>>
  /\ inbox' = Tail(inbox)
  /\ outbox' = outbox \o onmessage(Head(inbox))
  /\ UNCHANGED <<avars, pending, cvars, tvars>>

\* what workerRef.current.onmessage does with a reply
replyEffect(msg) ==
  IF msg.type = "ERROR" THEN "error"
  ELSE IF msg.type = "SUCCESS"
       THEN IF msg.result.t = "str" THEN "download" ELSE "setJson"
  ELSE "none"

\* workerRef.current.onmessage: the shell takes the next reply
AppOnMessage ==
  /\ outbox # <<>>
  /\ outbox' = Tail(outbox)
  /\ isProcessing' = FALSE
  /\ LET msg == Head(outbox)
         eff == replyEffect(msg)
     IN  /\ json' = IF eff = "setJson" THEN msg.result ELSE json
         /\ error' = CASE eff = "error" -> ErrorMsg(msg.error)
                       [] eff = "setJson" -> NoError
                       [] OTHER -> error
         /\ downloaded' = (eff = "download")
  /\ pending' = Tail(pending)
  /\ UNCHANGED <<input, isLargeFile, reading>>
  /\ UNCHANGED <<inbox, cvars, tvars>>

InitApp ==
  /\ input = EditorText(DefaultInput)
  /\ json = JSONparse(DefaultInput).value
  /\ error = NoError
  /\ isLargeFile = FALSE
  /\ isProcessing = FALSE
  /\ reading = 0
  /\ downloaded = FALSE
  /\ inbox = <<>>
  /\ outbox = <<>>
  /\ pending = <<>>

Init ==
  /\ InitApp
  /\ items = JUndefined
  /\ csv = <<>>
  /\ result = JUndefined
  /\ stage = "off"
  /\ TreeOff

Next ==
  \/ \E text \in TypedTexts : EditInput(text)
  \/ handleClear
  \/ handleMinify
  \/ handleFileChange
  \/ \E file \in Files : ReaderOnload(file)
  \/ handleExportCsv
  \/ WorkerOnMessage
  \/ AppOnMessage

Spec == Init /\ [][Next]_vars

(***************************************************************************)
(* Vocabulary of the worker protocol's properties.  The channels are       *)
(* first-in first-out and the shell handles one reply per request, so the  *)
(* k-th reply waiting in outbox answers the k-th request of pending, and   *)
(* the requests waiting in inbox are the ones after those.                 *)
(***************************************************************************)
Throws(req) == ~runTask(req.type, req.data).ok

SuccessReply(msg) ==
  msg.type = "SUCCESS" /\ DOMAIN msg = {"type", "id", "result"}
ErrorReply(msg) ==
  msg.type = "ERROR" /\ DOMAIN msg = {"type", "id", "error"}

\* every request not yet handled is waiting for the worker or has one reply
OneReplyEach == Len(outbox) + Len(inbox) = Len(pending)

\* the shell takes a reply in this step
HandlesReply == outbox # <<>> /\ outbox' = Tail(outbox)

(***************************************************************************)
(* C1: every request delivered to self.onmessage gets exactly one reply,   *)
(* never none and never two; the reply is a success reply carrying a       *)
(* result or an error reply carrying a message, and its id is the id of    *)
(* the request.                                                            *)
(***************************************************************************)
C1_OneReply ==
  /\ OneReplyEach
  /\ \A k \in 1..Len(inbox) : inbox[k] = pending[Len(outbox) + k].req
  /\ \A k \in 1..Len(outbox) :
       /\ SuccessReply(outbox[k]) \/ ErrorReply(outbox[k])
       /\ outbox[k].id = pending[k].req.id

\* C1 witness: the worker has answered the request with id 1 successfully
\* and has not yet taken the next one, whose id is 0
C1_Witness ==
  /\ Len(outbox) = 1 /\ Len(inbox) = 1
  /\ SuccessReply(outbox[1]) /\ outbox[1].id = 1
  /\ pending[1].req.id = 1 /\ inbox[1].id = 0

(***************************************************************************)
(* C2: when the parse or conversion of a request throws (a PARSE request   *)
(* whose text is not valid JSON, in particular), the one reply to it is an *)
(* error reply with a non-empty message, and not a success reply.          *)
(***************************************************************************)
C2_ErrorReply ==
  /\ OneReplyEach
  /\ \A k \in 1..Len(outbox) :
       Throws(pending[k].req) =>
         /\ ErrorReply(outbox[k])
         /\ ~SuccessReply(outbox[k])
         /\ outbox[k].error # ""

\* C2 witness: a PARSE request for the unclosed array was answered, and the
\* reply is waiting for the shell
C2_Witness ==
  /\ Len(outbox) = 1 /\ inbox = <<>>
  /\ pending[1].req.type = "PARSE" /\ pending[1].req.data = JStr(BrokenText)
  /\ Throws(pending[1].req)
  /\ ErrorReply(outbox[1])

(***************************************************************************)
(* C3 (as stated): the shell handles every success reply by the operation  *)
(* kind of the request it answers: the reply to a PARSE or CSV_TO_JSON     *)
(* request replaces the parsed value and triggers no download, the reply   *)
(* to a JSON_TO_CSV request triggers the download and leaves the parsed    *)
(* value alone, whatever the runtime type of the result.                   *)
(***************************************************************************)
C3_HandledByKind ==
  [][(HandlesReply /\ SuccessReply(Head(outbox))) =>
       IF Head(pending).req.type = "JSON_TO_CSV"
       THEN downloaded' /\ json' = json
       ELSE json' = Head(outbox).result /\ ~downloaded']_vars

(***************************************************************************)
(* C4 (as stated): the reply to a request that was outstanding when the    *)
(* user cleared the editor or loaded another input never changes the       *)
(* parsed value.                                                           *)
(***************************************************************************)
C4_LateReplyDiscarded ==
  [][(HandlesReply /\ Head(pending).stale) => json' = json]_vars

ParsedTexts == TypedTexts \cup {f.content : f \in Files} \cup {<<>>, DefaultInput}

\* raw is a text JSON.parse throws on
FailsToParse(raw) == trim(raw) # <<>> /\ ~JSONparse(raw).ok

\* parseJson of a text that does not parse sets the error message and leaves
\* the parsed value and the large-file flag as they are
FailedParseKeepsState ==
  \A raw \in ParsedTexts :
    FailsToParse(raw) =>
      \E st \in {parseJson(raw, <<json, error, isLargeFile>>)} :
        /\ st[1] = json
        /\ st[2] = ErrorMsg(JSONparse(raw).message)
        /\ st[3] = isLargeFile

\* the effect that calls parseJson runs at the end of this step
ParsesInput == (input' # input \/ isLargeFile' # isLargeFile) /\ ~isLargeFile'

\* a step in which the main thread fails to parse sets the error message and
\* leaves the parsed value; an error reply sets the error message and leaves
\* the parsed value, the editor text and the large-file flag
FailureSetsError ==
  /\ (ParsesInput /\ FailsToParse(input'.text)) =>
       /\ error' = ErrorMsg(JSONparse(input'.text).message)
       /\ json' = json
  /\ (HandlesReply /\ ErrorReply(Head(outbox))) =>
       /\ error' = ErrorMsg(Head(outbox).error)
       /\ json' = json
       /\ input' = input
       /\ isLargeFile' = isLargeFile

\* a successful parse on the main thread, the success reply to a PARSE or
\* CSV_TO_JSON request, and Clear leave no error message
SuccessClearsError ==
  /\ (ParsesInput /\ ~FailsToParse(input'.text)) => error' = NoError
  /\ (HandlesReply /\ SuccessReply(Head(outbox))
        /\ Head(pending).req.type \in {"PARSE", "CSV_TO_JSON"}) => error' = NoError
  /\ handleClear => error' = NoError

(***************************************************************************)
(* C17 (as stated): a failed parse or conversion, on the main thread or    *)
(* reported by an error reply, sets the error message and leaves the       *)
(* parsed value, the editor text and the large-file flag unchanged; the    *)
(* next successful parse, and Clear, clear the error message.              *)
(***************************************************************************)
C17_ErrorState ==
  []FailedParseKeepsState /\ [][FailureSetsError /\ SuccessClearsError]_vars

(***************************************************************************)
(* C18 (as stated): isProcessing is true in every state in which a request *)
(* has been dispatched and not yet answered (here even: not yet taken by   *)
(* the worker), and turns false only when no request is left unanswered.   *)
(***************************************************************************)
C18_BusyWhileOutstanding ==
  /\ [](inbox # <<>> => isProcessing)
  /\ [][(isProcessing /\ ~isProcessing') => inbox' = <<>>]_vars

(***************************************************************************)
(* Inputs of the converter                                                 *)
(***************************************************************************)
\* most elements of a drawn sequence of mixed elements
MaxItems == 2

Texts(A, n) == UNION {[1..k -> A] : k \in 0..n}

ValueAlphabet == {"a", "1", COMMA, QUOTE, SP, LF}
CsvAlphabet == {"a", "1", COMMA, QUOTE, SP, LF, CR}

StrValues ==
  {JStr(s) : s \in Texts(ValueAlphabet, MaxStrLen)}
    \cup {JStr(<<"t", "r", "u", "e">>), JStr(<<"F", "a", "l", "s", "e">>),
          JStr(<<"0", "0", "7">>), JStr(<<"a", COMMA, QUOTE, "b", QUOTE>>)}
ScalarValues == {JNull, JBool(TRUE), JBool(FALSE), JNum(0), JNum(7), JNum(12)}

KeyA == <<"a">>
KeyB == <<"b">>
\* keys of the one-field rows: plain ones, and ones the header line cannot carry
OddKeys == {KeyA, <<"a", COMMA, "b">>, <<SP, "a">>, <<QUOTE, "a">>, <<>>, <<"a", SP, "b">>}

\* [{k: v}]
OneFieldInputs ==
  {JArr(<<JObj(<< <<k, v>> >>)>>) : k \in OddKeys, v \in StrValues \cup ScalarValues}

OtherValues ==
  {JNull, JNum(7), JStr(<<"a">>), JStr(<<"a", LF, "a">>), JStr(<<COMMA>>),
   JArr(<<JNum(1), JNum(2)>>)}

\* [{a: v, b: w}]
TwoFieldInputs ==
  {JArr(<<JObj(<< <<KeyA, v>>, <<KeyB, w>> >>)>>) :
     v \in StrValues \cup ScalarValues, w \in OtherValues}

SmallValues == {JNum(1), JStr(<<"x", COMMA>>)}
SmallRows ==
  {JObj(<<>>)}
    \cup {JObj(<< <<k, v>> >>) : k \in {KeyA, KeyB}, v \in SmallValues}
    \cup {JObj(<< <<KeyA, v>>, <<KeyB, w>> >>) : v \in SmallValues, w \in SmallValues}
    \cup {JObj(<< <<KeyB, v>>, <<KeyA, w>> >>) : v \in SmallValues, w \in SmallValues}
NonMappings == {JNum(3), JNull, JStr(<<"a">>), JArr(<<JNum(5)>>), JArr(<<>>)}

\* sequences of rows and of elements that are no mappings
MixedInputs ==
  {JArr(a) : a \in UNION {[1..k -> SmallRows \cup NonMappings] : k \in 0..MaxItems}}

RowInputs ==
  OneFieldInputs \cup TwoFieldInputs \cup MixedInputs \cup {JNull, JObj(<< <<KeyA, JNum(1)>> >>)}

\* raw fields that show each branch of the type conversion: quoted and bare
\* numerals, boolean words, a quoted blank, quoted text, a quoted quote
FieldSamples ==
  {<<QUOTE, SP, QUOTE>>, <<QUOTE, "0", "0", "7", QUOTE>>, <<"0", "0", "7">>,
   <<"T", "R", "U", "E">>, <<QUOTE, "f", "a", "l", "s", "e", QUOTE>>,
   <<QUOTE, SP, "a", QUOTE>>, <<QUOTE, "1", SP, QUOTE>>, <<QUOTE, QUOTE>>,
   <<QUOTE, QUOTE, QUOTE, QUOTE>>, <<"a", SP, "1">>}

\* a header line a and one data line holding one sample field
CoercionSamples == {<<"a", LF>> \o f : f \in FieldSamples}

\* two headers and a data line of one field, or of two with one empty; the
\* headers differ or are the same name twice
ShortRowSamples ==
  {<<"a", COMMA, h, LF>> \o l :
     h \in {"a", "b"}, l \in {<<"1">>, <<COMMA, "1">>, <<"1", COMMA>>}}

CsvInputs == Texts(CsvAlphabet, MaxCsvLen) \cup CoercionSamples \cup ShortRowSamples

(***************************************************************************)
(* The converter applied: rows -> CSV text -> rows, or drawn text -> rows  *)
(***************************************************************************)
InitCsvInput ==
  \/ /\ items \in RowInputs
     /\ csv = <<>>
     /\ result = JUndefined
     /\ stage = "rows"
  \/ /\ items = JUndefined
     /\ csv \in CsvInputs
     /\ result = JUndefined
     /\ stage = "csv"

InitCsv ==
  /\ InitApp
  /\ InitCsvInput
  /\ TreeOff

ToCsv ==
  /\ stage = "rows"
  /\ csv' = jsonToCsv(items)
  /\ stage' = "csv"
  /\ UNCHANGED <<items, result, pvars, tvars>>

FromCsv ==
  /\ stage = "csv"
  /\ result' = csvToJson(csv)
  /\ stage' = "json"
  /\ UNCHANGED <<items, csv, pvars, tvars>>

NextCsv == ToCsv \/ FromCsv

SpecCsv == InitCsv /\ [][NextCsv]_vars

(***************************************************************************)
(* Vocabulary of the converter's properties                                *)
(***************************************************************************)
HasNewline(s) == \E i \in 1..Len(s) : s[i] = LF
IsScalar(v) == v.t \in {"str", "num", "bool", "null"}
IsMapping(e) == e.t = "obj"

\* a sequence of flat mappings of scalars, no text with a newline
FlatRows(its) ==
  /\ its.t = "arr"
  /\ \A i \in 1..Len(its.v) :
       /\ IsMapping(its.v[i])
       /\ \A p \in 1..Len(its.v[i].v) :
            LET val == its.v[i].v[p][2]
            IN  IsScalar(val) /\ (val.t = "str" => ~HasNewline(val.v))

\* back equals rows, but for the keys a row lacks or holds as the empty string
RoundTrips(rows, back) ==
  /\ back.t = "arr"
  /\ Len(back.v) = Len(rows.v)
  /\ \A i \in 1..Len(rows.v) : \A p \in 1..Len(rows.v[i].v) :
       LET k == rows.v[i].v[p][1]
           val == rows.v[i].v[p][2]
       IN  val # JStr(<<>>) =>
             /\ \E q \in 1..Len(back.v[i].v) : back.v[i].v[q][1] = k
             /\ \A q \in 1..Len(back.v[i].v) :
                  back.v[i].v[q][1] = k => back.v[i].v[q][2] = val

\* a key the header line carries unchanged
PlainKey(k) ==
  /\ k # <<>>
  /\ \A i \in 1..Len(k) : k[i] \notin {COMMA, LF}
  /\ k[1] \notin WhiteSpace \cup {QUOTE}
  /\ k[Len(k)] \notin WhiteSpace \cup {QUOTE}

PlainKeys(its) ==
  \A i \in 1..Len(its.v) :
    IsMapping(its.v[i]) => \A p \in 1..Len(its.v[i].v) : PlainKey(its.v[i].v[p][1])

\* a text csvToJson reads back as text: no number, no boolean word
KeptAsText(s) ==
  /\ \E i \in 1..Len(s) : s[i] \notin WhiteSpace \cup Digits
  /\ toLowerCase(s) \notin {<<"t", "r", "u", "e">>, <<"f", "a", "l", "s", "e">>}

TextsKept(its) ==
  \A i \in 1..Len(its.v) : \A p \in 1..Len(its.v[i].v) :
    LET val == its.v[i].v[p][2]
    IN  (val.t = "str" /\ val.v # <<>>) => KeptAsText(val.v)

SomeKey(its) ==
  Len(its.v) = 0 \/ \E i \in 1..Len(its.v) : Len(its.v[i].v) > 0

RoundTripDone == stage = "json" /\ items # JUndefined

(***************************************************************************)
(* C6 (as stated): for every sequence rows of flat mappings of strings,    *)
(* numbers, booleans and null without newlines, csvToJson(jsonToCsv(rows)) *)
(* equals rows but for the keys a row lacks or holds as the empty string.  *)
(***************************************************************************)
C6_RoundTripAsStated ==
  (RoundTripDone /\ FlatRows(items)) => RoundTrips(items, result)

(***************************************************************************)
(* C6 (amended): the round trip holds for the flat rows that have at least *)
(* one key, whose keys the header line carries unchanged (not empty, no    *)
(* comma, no newline, no white space or quote at either end) and whose     *)
(* non-empty string values csvToJson keeps as text (not numeric, not       *)
(* white space only, not true/false in any letter case).                   *)
(***************************************************************************)
C6_RoundTrip ==
  (RoundTripDone /\ FlatRows(items) /\ PlainKeys(items) /\ TextsKept(items)
     /\ SomeKey(items))
    => RoundTrips(items, result)

\* C6 witness: two rows came back, one of them lacking a key of the other,
\* with a text value that holds a comma
C6_Witness ==
  /\ RoundTripDone /\ FlatRows(items) /\ PlainKeys(items) /\ TextsKept(items)
  /\ Len(items.v) = 2
  /\ Len(items.v[1].v) = 1 /\ Len(items.v[2].v) = 2
  /\ \E p \in 1..2 : items.v[2].v[p][2] = JStr(<<"x", COMMA>>)
  /\ Len(result.v) = 2

\* the lines of a text as LF ends them
RawLines(text) == SplitOn(text, {i \in 1..Len(text) : text[i] = LF}, 1, <<>>)

\* the own keys of the mapping elements, in scan order, repeats kept
RECURSIVE MappingKeyScan(_)
MappingKeyScan(elems) ==
  IF elems = <<>> THEN <<>>
  ELSE (IF IsMapping(Head(elems))
        THEN [p \in 1..Len(Head(elems).v) |-> Head(elems).v[p][1]]
        ELSE <<>>) \o MappingKeyScan(Tail(elems))

\* s without the entries that occurred earlier in it
RECURSIVE FirstOccurrences(_, _)
FirstOccurrences(s, i) ==
  IF i > Len(s) THEN <<>>
  ELSE (IF \E j \in 1..(i - 1) : s[j] = s[i] THEN <<>> ELSE <<s[i]>>)
         \o FirstOccurrences(s, i + 1)

\* the keys of the mapping elements, each once, in first-seen order
FirstSeenKeys(its) == FirstOccurrences(MappingKeyScan(its.v), 1)

AllMappings(its) == its.t = "arr" /\ \A i \in 1..Len(its.v) : IsMapping(its.v[i])

\* a text value the CSV has to quote: a comma or a quote in it, no newline
NeedsQuoting(s) ==
  /\ \E i \in 1..Len(s) : s[i] \in {COMMA, QUOTE}
  /\ ~HasNewline(s)

\* s with every quote written twice
Doubled(s) ==
  LET at(i) == i + Cardinality({j \in 1..(i - 1) : s[j] = QUOTE})
      n == Len(s) + Cardinality({j \in 1..Len(s) : s[j] = QUOTE})
  IN  [q \in 1..n |-> s[CHOOSE i \in 1..Len(s) :
                           at(i) = q \/ (s[i] = QUOTE /\ at(i) + 1 = q)]]

\* the text value at pair p of row i is written quoted with its quotes
\* doubled, is one field of its line, and comes back as the same text
QuotedFieldRoundTrips(i, p) ==
  LET k == items.v[i].v[p][1]
      s == items.v[i].v[p][2].v
      hs == FirstSeenKeys(items)
      h == CHOOSE n \in 1..Len(hs) : hs[n] = k
      lines == RawLines(csv)
  IN  /\ i + 1 <= Len(lines)
      /\ LET fields == splitRegex(lines[i + 1])
         IN  /\ Len(fields) = Len(hs)
             /\ fields[h] = <<QUOTE>> \o Doubled(s) \o <<QUOTE>>
      /\ i <= Len(result.v)
      /\ getProp(result.v[i], k) = JStr(s)

QuotedFieldsRoundTrip ==
  \A i \in 1..Len(items.v) : \A p \in 1..Len(items.v[i].v) :
    LET val == items.v[i].v[p][2]
    IN  (val.t = "str" /\ NeedsQuoting(val.v)) => QuotedFieldRoundTrips(i, p)

\* no value of any row is written with a newline in it
NoNewlineValues(its) ==
  \A i \in 1..Len(its.v) :
    IsMapping(its.v[i]) =>
      \A p \in 1..Len(its.v[i].v) :
        LET val == its.v[i].v[p][2]
        IN  val.t \in {"null", "undefined"} \/ ~HasNewline(String(val))

(***************************************************************************)
(* C7 (as stated): every text value without newlines that holds a comma or *)
(* a quote is written wrapped in quotes with its quotes doubled, is not    *)
(* split when read back, and comes back as the same text, whatever the     *)
(* other fields of the row are.                                            *)
(***************************************************************************)
C7_QuotingAsStated ==
  (RoundTripDone /\ AllMappings(items)) => QuotedFieldsRoundTrip

(***************************************************************************)
(* C7 (amended): the same, provided no other value of the rows is written  *)
(* with a newline in it and the keys are ones the header line carries      *)
(* unchanged (not empty, no comma, no newline, no white space or quote at  *)
(* either end).                                                            *)
(***************************************************************************)
C7_Quoting ==
  (RoundTripDone /\ AllMappings(items) /\ PlainKeys(items) /\ NoNewlineValues(items))
    => QuotedFieldsRoundTrip

\* C7 witness: the text a,"b" went out beside a second field and came back
C7_Witness ==
  /\ RoundTripDone /\ AllMappings(items) /\ PlainKeys(items) /\ NoNewlineValues(items)
  /\ Len(items.v) = 1 /\ Len(items.v[1].v) = 2
  /\ items.v[1].v[1][2] = JStr(<<"a", COMMA, QUOTE, "b", QUOTE>>)
  /\ items.v[1].v[2][2] = JStr(<<COMMA>>)
  /\ getProp(result.v[1], KeyA) = JStr(<<"a", COMMA, QUOTE, "b", QUOTE>>)

Converted == stage \in {"csv", "json"} /\ items # JUndefined

(***************************************************************************)
(* C8: the header line of jsonToCsv(rows) lists the keys of the mapping    *)
(* elements of rows, each once, in first-seen order.                       *)
(***************************************************************************)
C8_HeaderOrder ==
  (Converted /\ items.t = "arr" /\ Len(items.v) > 0)
    => RawLines(csv)[1] = join(FirstSeenKeys(items), <<COMMA>>)

(***************************************************************************)
(* C9: an element that is no mapping (a scalar, null, a nested sequence)   *)
(* is skipped by jsonToCsv: the output is that of the mapping elements     *)
(* alone, a header line and one line for each of them.                     *)
(***************************************************************************)
C9_NonMappingsSkipped ==
  (Converted /\ items.t = "arr" /\ Len(items.v) > 0 /\ PlainKeys(items)
     /\ NoNewlineValues(items))
    => /\ Len(RawLines(csv)) =
            IF \E i \in 1..Len(items.v) : IsMapping(items.v[i])
            THEN 1 + Len(SelectSeq(items.v, IsMapping))
            ELSE 1
       /\ \A k \in 1..Len(splitComma(RawLines(csv)[1])) :
            \/ RawLines(csv)[1] = <<>>
            \/ \E n \in 1..Len(FirstSeenKeys(items)) :
                 splitComma(RawLines(csv)[1])[k] = FirstSeenKeys(items)[n]

\* the lines with a character that is not white space
NonBlank(l) == \E i \in 1..Len(l) : l[i] \notin WhiteSpace
NonBlankLines(text) == SelectSeq(RawLines(text), NonBlank)

(***************************************************************************)
(* C10: csvToJson returns the empty sequence when the text has fewer than  *)
(* 2 lines that are not empty after trimming; otherwise it returns one     *)
(* record for each such line after the first, in line order.               *)
(***************************************************************************)
C10_RecordPerLine ==
  stage = "json" =>
    LET nb == NonBlankLines(csv)
    IN  /\ result.t = "arr"
        /\ Len(nb) < 2 => result.v = <<>>
        /\ Len(nb) >= 2 =>
             /\ Len(result.v) = Len(nb) - 1
             /\ \A k \in 1..(Len(nb) - 1) :
                  result.v[k] = parseRow(parseHeaders(nb[1]), trim(nb[k + 1]))

\* C10 witness: a drawn text of three lines, the middle one blank, gave one
\* record
C10_Witness ==
  /\ stage = "json" /\ items = JUndefined
  /\ Len(RawLines(csv)) = 3
  /\ ~NonBlank(RawLines(csv)[2])
  /\ Len(NonBlankLines(csv)) = 2
  /\ Len(result.v) = 1

\* a text that as a whole reads as a number: digits, white space around them
NumberText(t) == trim(t) # <<>> /\ \A i \in 1..Len(trim(t)) : trim(t)[i] \in Digits

\* the conversion of a field's text in the stated priority order
Coerced(t) ==
  IF t = <<>> THEN JNull
  ELSE IF NumberText(t) THEN JNum(DigitsValue(trim(t), 0))
  ELSE IF toLowerCase(t) = <<"t", "r", "u", "e">> THEN JBool(TRUE)
  ELSE IF toLowerCase(t) = <<"f", "a", "l", "s", "e">> THEN JBool(FALSE)
  ELSE JStr(t)

\* the text read was the header line a and one data line of one field
OneFieldRead ==
  /\ stage = "json" /\ items = JUndefined
  /\ Len(RawLines(csv)) = 2
  /\ RawLines(csv)[1] = <<"a">>
  /\ NonBlank(RawLines(csv)[2])
  /\ \A i \in 1..Len(RawLines(csv)[2]) : RawLines(csv)[2][i] # COMMA

(***************************************************************************)
(* C11 (as stated): csvToJson converts each field, trimmed and unwrapped,  *)
(* in this order: the empty text becomes null; a text that as a whole      *)
(* reads as a number becomes the number, quoted or not; true and false in  *)
(* any letter case become the boolean; every other text, blanks inside     *)
(* quotes included, is kept as the same string.                            *)
(***************************************************************************)
C11_CoercionOrder ==
  OneFieldRead =>
    result = JArr(<<JObj(<< <<KeyA, Coerced(fieldText(RawLines(csv)[2]))>> >>)>>)

HasKey(rec, k) == \E q \in 1..Len(rec.v) : rec.v[q][1] = k

DistinctNames(hs) == \A i, j \in 1..Len(hs) : hs[i] = hs[j] => i = j

\* in every record, a header past the last field of its line is no key, and
\* a header whose field is empty is a key holding null
ShortRowsRead ==
  LET nb == NonBlankLines(csv)
      hs == parseHeaders(nb[1])
  IN  \A k \in 1..Len(result.v) :
        LET fields == splitRegex(trim(nb[k + 1]))
        IN  \A j \in 1..Len(hs) :
              /\ j > Len(fields) => ~HasKey(result.v[k], hs[j])
              /\ (j <= Len(fields) /\ fieldText(fields[j]) = <<>>)
                   => /\ HasKey(result.v[k], hs[j])
                      /\ getProp(result.v[k], hs[j]) = JNull

TextRead == stage = "json" /\ items = JUndefined /\ Len(NonBlankLines(csv)) >= 2

ExpectedField(row, h) ==
  IF ~HasKey(row, h) \/ getProp(row, h).t = "null"
  THEN <<QUOTE, QUOTE>>
  ELSE <<QUOTE>> \o Doubled(String(getProp(row, h))) \o <<QUOTE>>

\* text is the header line and then, for each mapping element in input
\* order, one line of one field per header, joined by newlines; the empty
\* text for the empty sequence
RowsAsStated(its, text) ==
  IF Len(its.v) = 0 THEN text = <<>>
  ELSE \E hs \in {csvHeaders(its.v)} :
         \E ms \in {SelectSeq(its.v, IsMapping)} :
           text = join(<<join(hs, <<COMMA>>)>>
                         \o [i \in 1..Len(ms) |->
                               join([h \in 1..Len(hs) |-> ExpectedField(ms[i], hs[h])],
                                    <<COMMA>>)],
                       <<LF>>)

(***************************************************************************)
(* C16: each data row of jsonToCsv(rows) holds one field per header, in    *)
(* header order, the empty quoted field for a key the row lacks or holds   *)
(* as null; the output is the header line and then one line per mapping    *)
(* element in input order, joined by newlines with none at the end; the    *)
(* output for the empty sequence is the empty text.                        *)
(***************************************************************************)
C16_RowShape ==
  (Converted /\ items.t = "arr") => RowsAsStated(items, csv)

(***************************************************************************)
(* The tree view: JsonTree (components/TreeView.tsx).  Every mounted       *)
(* JsonTree has its own isExpanded and displayLimit; the children of a     *)
(* node are keyed by their key, so a child keeps its state for as long as  *)
(* its parent renders a child with that key, and starts afresh otherwise.  *)
(***************************************************************************)
ITEMS_PER_PAGE == 50

\* getDataType: 'null' for null, 'array' for an array, typeof data otherwise
DataTypeNames ==
  [null |-> "null", arr |-> "array", obj |-> "object", str |-> "string",
   num |-> "number", bool |-> "boolean", undefined |-> "undefined"]

getDataType(d) == DataTypeNames[d.t]

\* const isObject (the name isObject is taken by the worker's test)
isObjectNode(d) == getDataType(d) \in {"object", "array"}

isEmpty(d) == isObjectNode(d) /\ Len(ObjectKeys(d)) = 0

Min(a, b) == IF a < b THEN a ELSE b

\* a slice that ignores the display limit
visibleKeys_unpaged(d, displayLimit) == ObjectKeys(d)

\* keys.slice(0, displayLimit)
visibleKeys(d, displayLimit) ==
  SubSeq(ObjectKeys(d), 1, Min(displayLimit, Len(ObjectKeys(d))))

\* totalItems - displayLimit
remaining(d, displayLimit) == Len(ObjectKeys(d)) - displayLimit

\* initial values that expand every node
initialState_allExpanded(depth) == [isExpanded |-> TRUE, displayLimit |-> ITEMS_PER_PAGE]

\* the useState initial values of a JsonTree at the given depth
initialState(depth) == [isExpanded |-> depth < 1, displayLimit |-> ITEMS_PER_PAGE]

\* isExpanded && !isEmpty: the children are rendered
rendersChildren(d, st) == isObjectNode(d) /\ st.isExpanded /\ ~isEmpty(d)

\* remaining > 0 inside that block: 'show more' and 'show all' are offered
offersMore(d, st) == rendersChildren(d, st) /\ remaining(d, st.displayLimit) > 0

\* the count summary a container shows while it is not expanded
countSummary(d, st) ==
  IF isObjectNode(d) /\ ~st.isExpanded
  THEN IF getDataType(d) = "array" THEN <<Len(d.v), "items">>
       ELSE <<Len(ObjectKeys(d)), "keys">>
  ELSE <<>>

\* the state of the JsonTree at path p: the state it had, or a fresh one
stateAt(old, p) == IF p \in DOMAIN old THEN old[p] ELSE initialState(Len(p))

\* visibleKeys.map: the path and the data of each child rendered by the node
\* at path p, whose data is d
childrenOf(p, d, displayLimit) ==
  UNION {{<<Append(p, ks[i]), getProp(d, ks[i])>> : i \in 1..Len(ks)} :
           ks \in {visibleKeys(d, displayLimit)}}

\* the paths of the JsonTrees rendered at and below path p, whose data is d
RECURSIVE mountedPaths(_, _, _)
mountedPaths(p, d, old) ==
  {p} \cup
    (IF rendersChildren(d, stateAt(old, p))
     THEN UNION {mountedPaths(c[1], c[2], old) :
                   c \in childrenOf(p, d, stateAt(old, p).displayLimit)}
     ELSE {})

\* the mounted JsonTrees after a render of the root with data d
render(d, old) == [p \in mountedPaths(<<>>, d, old) |-> stateAt(old, p)]

\* the data of the node at path p
RECURSIVE dataAt(_, _)
dataAt(d, p) == IF p = <<>> THEN d ELSE dataAt(getProp(d, Head(p)), Tail(p))

\* how many children of the node at p are rendered
shownAt(ns, p) ==
  Cardinality({q \in DOMAIN ns : Len(q) = Len(p) + 1 /\ SubSeq(q, 1, Len(p)) = p})

\* the history after the operation op at path p
clicked(op, p) ==
  [last |-> [op |-> op, at |-> p, shown |-> shownAt(nodes, p)], prev |-> click.last]

\* a toggle that also goes back to the first page
toggleExpand_resetsPage(p) ==
  /\ p \in DOMAIN nodes
  /\ isObjectNode(dataAt(rootData, p))
  /\ \E new \in {[nodes EXCEPT ![p] = [isExpanded |-> ~@.isExpanded,
                                        displayLimit |-> ITEMS_PER_PAGE]]} :
       nodes' = render(rootData, new)
  /\ click' = clicked("toggle", p)
  /\ UNCHANGED <<rootData, pvars, cvars>>

\* toggleExpand: setIsExpanded(!isExpanded), then React renders again
toggleExpand(p) ==
  /\ p \in DOMAIN nodes
  /\ isObjectNode(dataAt(rootData, p))
  /\ \E new \in {[nodes EXCEPT ![p].isExpanded = ~@]} : nodes' = render(rootData, new)
  /\ click' = clicked("toggle", p)
  /\ UNCHANGED <<rootData, pvars, cvars>>

showMore(p) ==
  /\ p \in DOMAIN nodes
  /\ offersMore(dataAt(rootData, p), nodes[p])
  /\ \E new \in {[nodes EXCEPT ![p].displayLimit = @ + ITEMS_PER_PAGE]} :
       nodes' = render(rootData, new)
  /\ click' = clicked("more", p)
  /\ UNCHANGED <<rootData, pvars, cvars>>

showAll(p) ==
  /\ p \in DOMAIN nodes
  /\ offersMore(dataAt(rootData, p), nodes[p])
  /\ \E new \in {[nodes EXCEPT ![p].displayLimit = Len(ObjectKeys(dataAt(rootData, p)))]} :
       nodes' = render(rootData, new)
  /\ click' = clicked("all", p)
  /\ UNCHANGED <<rootData, pvars, cvars>>

\* most children of a container of the sample documents
MaxChildren == 120

\* an array of n numbers
Wide(n) == JArr([i \in 1..n |-> JNum(i)])

\* the documents shown: a wide array; a mapping of a wide array, an empty
\* mapping and a number; a mapping that nests an array two levels down; a
\* number
TreeInputs ==
  {Wide(MaxChildren),
   JObj(<< <<KeyA, Wide(MaxChildren)>>, <<KeyB, JObj(<<>>)>>, <<<<"c">>, JNum(1)>> >>),
   JObj(<< <<KeyA, JObj(<< <<KeyA, Wide(1)>> >>)>> >>),
   JNum(7)}

\* App renders <JsonTree data={json}/> while json is truthy: json is set to d
SetData(d) ==
  /\ d # rootData
  /\ rootData' = d
  /\ nodes' = IF truthy(d) THEN render(d, nodes) ELSE <<>>
  /\ click' = clicked(IF ~truthy(d) THEN "unmount"
                      ELSE IF ~truthy(rootData) THEN "mount" ELSE "data", <<>>)
  /\ UNCHANGED <<pvars, cvars>>

InitTree ==
  /\ InitApp
  /\ items = JUndefined
  /\ csv = <<>>
  /\ result = JUndefined
  /\ stage = "off"
  /\ rootData \in TreeInputs
  /\ nodes = render(rootData, <<>>)
  /\ click = [last |-> [op |-> "mount", at |-> <<>>, shown |-> 0], prev |-> NoClick]

NextTree ==
  \/ \E p \in DOMAIN nodes : toggleExpand(p)
  \/ \E p \in DOMAIN nodes : showMore(p)
  \/ \E p \in DOMAIN nodes : showAll(p)
  \/ \E d \in TreeInputs \cup {JNull} : SetData(d)

SpecTree == InitTree /\ [][NextTree]_vars

\* ---- claims about the tree view ----

\* the mounted nodes whose data is an array or a mapping
ContainerPaths == {p \in DOMAIN nodes : isObjectNode(dataAt(rootData, p))}

\* the number of children of the data at path p
ChildCount(p) == Len(ObjectKeys(dataAt(rootData, p)))

\* an expanded non-empty container renders min(L, N) children and offers
\* the controls exactly while that is fewer than N
RenderedByLimit ==
  \A p \in ContainerPaths :
    \A n \in {ChildCount(p)} :
      \A shown \in {shownAt(nodes, p)} :
        /\ (nodes[p].isExpanded /\ n > 0) =>
             shown = Min(nodes[p].displayLimit, n)
        /\ offersMore(dataAt(rootData, p), nodes[p]) <=>
             (nodes[p].isExpanded /\ n > 0 /\ shown < n)

\* a node that comes into view has the limit 50; 'show more' adds 50 to the
\* limit of its node and 'show all' makes it the number of children
LimitSteps ==
  /\ \A p \in DOMAIN nodes' \ DOMAIN nodes : nodes'[p].displayLimit = ITEMS_PER_PAGE
  /\ click'.last.op = "more" =>
       nodes'[click'.last.at].displayLimit =
         nodes[click'.last.at].displayLimit + ITEMS_PER_PAGE
  /\ click'.last.op = "all" =>
       nodes'[click'.last.at].displayLimit = ChildCount(click'.last.at)

\* C13: an expanded non-empty container of N children renders min(L, N) of
\* them, where L is 50 when the node is first shown, grows by 50 on each
\* 'show more' and becomes N on 'show all'; the controls are offered exactly
\* while fewer than N children are rendered
C13_Pagination ==
  /\ \A p \in DOMAIN nodes : nodes[p].displayLimit = ITEMS_PER_PAGE
  /\ []RenderedByLimit
  /\ [][LimitSteps]_vars

\* a container of more than two pages showed one page, then two after 'show
\* more', and shows all of its children after 'show all'
C13_Witness ==
  /\ click.last.op = "all"
  /\ click.prev.op = "more"
  /\ click.prev.at = click.last.at
  /\ click.prev.shown = ITEMS_PER_PAGE
  /\ click.last.shown = 2 * ITEMS_PER_PAGE
  /\ ChildCount(click.last.at) > 2 * ITEMS_PER_PAGE
  /\ shownAt(nodes, click.last.at) = ChildCount(click.last.at)
  /\ ~offersMore(dataAt(rootData, click.last.at), nodes[click.last.at])

\* C14: when a tree is first rendered the root is expanded and every
\* container below it is collapsed, showing its count of items or keys and
\* none of its children
C14_FirstRender ==
  click.last.op = "mount" =>
    /\ nodes[<<>>].isExpanded
    /\ \A p \in ContainerPaths :
         Len(p) >= 1 =>
           /\ ~nodes[p].isExpanded
           /\ shownAt(nodes, p) = 0
           /\ countSummary(dataAt(rootData, p), nodes[p]) =
                IF dataAt(rootData, p).t = "arr"
                  THEN <<ChildCount(p), "items">>
                  ELSE <<ChildCount(p), "keys">>

\* a first render of a mapping that holds a wide array and a mapping
C14_Witness ==
  /\ click.last.op = "mount"
  /\ click.prev.op = "unmount"
  /\ \E p, q \in ContainerPaths :
       /\ Len(p) = 1
       /\ Len(q) = 1
       /\ countSummary(dataAt(rootData, p), nodes[p]) = <<MaxChildren, "items">>
       /\ countSummary(dataAt(rootData, q), nodes[q]) = <<0, "keys">>

\* a toggle leaves the display limit of its node as it was
ToggleKeepsLimit ==
  click'.last.op = "toggle" =>
    nodes'[click'.last.at].displayLimit = nodes[click'.last.at].displayLimit

\* after a collapse and an expand of the same node, it renders as many
\* children as before the collapse
SameAfterReexpand ==
  (/\ click.last.op = "toggle"
   /\ click.prev.op = "toggle"
   /\ click.prev.at = click.last.at
   /\ nodes[click.last.at].isExpanded)
  => shownAt(nodes, click.last.at) = click.prev.shown

\* C15: toggleExpand leaves the display limit of its node unchanged, so
\* after a collapse followed by an expand the node renders the same number
\* of children as before the collapse
C15_ToggleKeepsPage == []SameAfterReexpand /\ [][ToggleKeepsLimit]_vars

\* a container showing two pages was collapsed and expanded, and shows two
\* pages again
C15_Witness ==
  /\ click.last.op = "toggle"
  /\ click.prev.op = "toggle"
  /\ click.prev.at = click.last.at
  /\ click.prev.shown = 2 * ITEMS_PER_PAGE
  /\ nodes[click.last.at].isExpanded
  /\ shownAt(nodes, click.last.at) = 2 * ITEMS_PER_PAGE
====
